---- MODULE Spec2Model ----
(***************************************************************************)
(* Model of two parts of the WebGL backend of webdnn:                      *)
(*   - optimize_rules/insert_channel_mode_conversion.py: the pass that     *)
(*     splices ConvertRtoRGBA / ConvertRGBAtoR operators into the graph;   *)
(*   - kernels/elementwise_add.py: _simplify_orders and                    *)
(*     _optimize_loop_structure, and the uniforms W and H that             *)
(*     elementwise_add registers.                                          *)
(* The parts share no state; SpecRewrite and SpecDriver run the first,     *)
(* SpecLayout the second, SpecKernel the uniforms.                         *)
(***************************************************************************)
EXTENDS Integers, Sequences, FiniteSets, TLC

VARIABLES
    graph,          \* the Graph: operators, their input/output dicts, ChannelMode of each Variable
    pc,             \* position inside InsertChannelModeConversion.optimize
    todo,           \* operators of traverse.listup_operators(graph) not yet visited
    flag_changed,   \* local flag_changed of optimize
    ret,            \* value returned by the last invocation of optimize
    last,           \* the splice done by the last _replace_input / _replace_output call
    variables,      \* the list of Variables passed to _optimize_loop_structure
    orders,         \* _simplify_orders: orders[v], the simplified Order of each Variable
    shape_dicts,    \* _simplify_orders: shape_dicts[v], extent of each axis of orders[v]
    var_dict,       \* _simplify_orders: axis -> set of Variables, in insertion order
    counter,        \* _simplify_orders: number of synthetic axes made so far
    lpc,            \* position inside _optimize_loop_structure / _simplify_orders
    result,         \* value returned by _optimize_loop_structure
    y_size,         \* elementwise_add: y.size, the number of elements of the output
    uniforms,       \* elementwise_add: the uniforms W and H registered for the kernel
    kpc             \* position inside elementwise_add

rvars == <<graph, pc, todo, flag_changed, ret, last>>

lvars == <<variables, orders, shape_dicts, var_dict, counter, lpc, result>>

kvars == <<y_size, uniforms, kpc>>

vars == <<graph, pc, todo, flag_changed, ret, last,
          variables, orders, shape_dicts, var_dict, counter, lpc, result,
          y_size, uniforms, kpc>>

----------------------------------------------------------------------------
(* Bounds of the initial graphs *)

MaxOps == 2         \* operators in the initial graph
MaxArity == 2       \* inputs of one operator of the initial graph
MaxVars == 2        \* Variables in the list given to _optimize_loop_structure
NumAxes == 2        \* distinct axes the Variables of that list are made of
MaxExtent == 2      \* largest extent of an axis
MaxSize == 2049     \* largest number of elements of the output of elementwise_add

----------------------------------------------------------------------------
(* Generic helpers *)

Range(s) == {s[i] : i \in 1..Len(s)}

SetMin(S) == CHOOSE x \in S : \A y \in S : x <= y

SeqsUpTo(S, k) == UNION {[1..m -> S] : m \in 1..k}

----------------------------------------------------------------------------
(* Graph vocabulary: webdnn.graph (Operator, Variable), ChannelMode *)

R == "R"
RGBA == "RGBA"
ChannelModeEnum == {R, RGBA}

Sgemm == "Sgemm"
ConvertRGBAtoR == "ConvertRGBAtoR"
ConvertRtoRGBA == "ConvertRtoRGBA"
ElementwiseAdd == "ElementwiseAdd"
OperatorKinds == {Sgemm, ConvertRGBAtoR, ConvertRtoRGBA, ElementwiseAdd}

InputNames == <<"x0", "x1", "x2", "x3">>

\* One item of an operator's inputs / outputs dict (a dict keeps insertion order).
Entry(n, v) == [name |-> n, var |-> v]

DictGet(d, n) == d[CHOOSE i \in 1..Len(d) : d[i].name = n].var

DictKeys(d) == [i \in 1..Len(d) |-> d[i].name]

DictValues(d) == {d[i].var : i \in 1..Len(d)}

\* Operator._get_input_name / _get_output_name: the first key bound to the Variable.
DictNameOf(d, v) ==
    d[CHOOSE i \in 1..Len(d) : d[i].var = v /\ \A j \in 1..(i - 1) : d[j].var # v].name

\* dict.pop(name) followed by dict[name] = v_new: the key moves to the end.
DictReplace(d, v_old, v_new) ==
    LET n == DictNameOf(d, v_old)
    IN  Append(SelectSeq(d, LAMBDA e : e.name # n), Entry(n, v_new))

Operators(g) == 1..Len(g.kind)

Variables(g) == 1..Len(g.mode)

ChannelModeGet(g, v) == g.mode[v]

\* Operators whose outputs hold v (Variable.output_from) and whose inputs hold v (Variable.input_to)
Producers(g, v) == {op \in Operators(g) : v \in DictValues(g.outputs[op])}

Consumers(g, v) == {op \in Operators(g) : v \in DictValues(g.inputs[op])}

\* Variable(shape, order) followed by ChannelMode.set(v, mode); the new Variable is Len(mode) + 1
NewVariable(g, m) == [g EXCEPT !.mode = Append(@, m)]

\* Operator.replace_input(v_old, v_new)
ReplaceInput(g, op, v_old, v_new) ==
    [g EXCEPT !.inputs[op] = DictReplace(@, v_old, v_new)]

\* Operator.replace_output(v_old, v_new)
ReplaceOutput(g, op, v_old, v_new) ==
    [g EXCEPT !.outputs[op] = DictReplace(@, v_old, v_new)]

\* Variable.replace(v_new) called on v_old: the producer and every consumer of v_old
\* are re-connected to v_new.
VariableReplace(g, v_old, v_new) ==
    [g EXCEPT
        !.outputs = [op \in Operators(g) |->
                        IF v_old \in DictValues(g.outputs[op])
                        THEN DictReplace(g.outputs[op], v_old, v_new)
                        ELSE g.outputs[op]],
        !.inputs  = [op \in Operators(g) |->
                        IF v_old \in DictValues(g.inputs[op])
                        THEN DictReplace(g.inputs[op], v_old, v_new)
                        ELSE g.inputs[op]]]

\* ConvertRtoRGBA(None)(v) / ConvertRGBAtoR(None)(v): a new operator of that kind with
\* input x0 = v and a new output Variable y in the format the conversion produces.
\* The new operator is Len(kind) + 1, its output Len(mode) + 1.
ConversionCall(g, k, v) ==
    LET g1 == NewVariable(g, IF k = ConvertRtoRGBA THEN RGBA ELSE R)
    IN  [g1 EXCEPT !.kind    = Append(@, k),
                   !.inputs  = Append(@, <<Entry("x0", v)>>),
                   !.outputs = Append(@, <<Entry("y", Len(g1.mode))>>)]

\* traverse.listup_operators(graph): the operators in a topological order
RECURSIVE ListupFrom(_, _)
ListupFrom(g, done) ==
    LET ready == {op \in Operators(g) \ Range(done) :
                    \A v \in DictValues(g.inputs[op]) : Producers(g, v) \subseteq Range(done)}
    IN  IF ready = {} THEN done ELSE ListupFrom(g, Append(done, SetMin(ready)))

listup_operators(g) == ListupFrom(g, <<>>)

----------------------------------------------------------------------------
(* insert_channel_mode_conversion.py *)

\* Result of a _replace_* call: the graph after the call and the returned bool
Result(g, b) == [graph |-> g, changed |-> b]

\* _replace_input with v.replace(v_new) in place of op.replace_input(v, v_new)
_replace_input_replace_all(g, op, var_name, target) ==
    LET v == DictGet(g.inputs[op], var_name)
    IN  IF ChannelModeGet(g, v) = target
        THEN Result(g, FALSE)
        ELSE LET g1 == IF target = RGBA
                       THEN ConversionCall(g, ConvertRtoRGBA, v)
                       ELSE ConversionCall(g, ConvertRGBAtoR, v)
                 v_new == Len(g1.mode)
             IN  Result(VariableReplace(g1, v, v_new), TRUE)

_replace_input(g, op, var_name, target) ==
    LET v == DictGet(g.inputs[op], var_name)
    IN  IF ChannelModeGet(g, v) = target
        THEN Result(g, FALSE)
        ELSE LET g1 == IF target = RGBA
                       THEN ConversionCall(g, ConvertRtoRGBA, v)
                       ELSE ConversionCall(g, ConvertRGBAtoR, v)
                 v_new == Len(g1.mode)
             IN  Result(ReplaceInput(g1, op, v, v_new), TRUE)

\* _replace_output without op.replace_output(v, v_new)
_replace_output_keep_producer(g, op, var_name, target) ==
    LET v == DictGet(g.outputs[op], var_name)
    IN  IF ChannelModeGet(g, v) = target
        THEN Result(g, FALSE)
        ELSE LET g1 == NewVariable(g, target)
                 v_new == Len(g1.mode)
                 g3 == IF target = RGBA
                       THEN ConversionCall(g1, ConvertRGBAtoR, v_new)
                       ELSE ConversionCall(g1, ConvertRtoRGBA, v_new)
             IN  Result(VariableReplace(g3, Len(g3.mode), v), TRUE)

\* _replace_output with the conversion called on v, not on v_new (lines 57 and 59)
_replace_output_convert_old(g, op, var_name, target) ==
    LET v == DictGet(g.outputs[op], var_name)
    IN  IF ChannelModeGet(g, v) = target
        THEN Result(g, FALSE)
        ELSE LET g1 == NewVariable(g, target)
                 v_new == Len(g1.mode)
                 g2 == ReplaceOutput(g1, op, v, v_new)
                 g3 == IF target = RGBA
                       THEN ConversionCall(g2, ConvertRGBAtoR, v)
                       ELSE ConversionCall(g2, ConvertRtoRGBA, v)
             IN  Result(VariableReplace(g3, Len(g3.mode), v), TRUE)

_replace_output(g, op, var_name, target) ==
    LET v == DictGet(g.outputs[op], var_name)
    IN  IF ChannelModeGet(g, v) = target
        THEN Result(g, FALSE)
        ELSE LET g1 == NewVariable(g, target)
                 v_new == Len(g1.mode)
                 g2 == ReplaceOutput(g1, op, v, v_new)
                 g3 == IF target = RGBA
                       THEN ConversionCall(g2, ConvertRGBAtoR, v_new)
                       ELSE ConversionCall(g2, ConvertRtoRGBA, v_new)
             IN  Result(VariableReplace(g3, Len(g3.mode), v), TRUE)

\* any(f(name) for name in keys): the generator stops at the first call that returns True
RECURSIVE AnyInput(_, _, _, _)
AnyInput(g, op, names, target) ==
    IF names = <<>> THEN Result(g, FALSE)
    ELSE LET r == _replace_input(g, op, Head(names), target)
         IN  IF r.changed THEN r ELSE AnyInput(r.graph, op, Tail(names), target)

RECURSIVE AnyOutput(_, _, _, _)
AnyOutput(g, op, names, target) ==
    IF names = <<>> THEN Result(g, FALSE)
    ELSE LET r == _replace_output(g, op, Head(names), target)
         IN  IF r.changed THEN r ELSE AnyOutput(r.graph, op, Tail(names), target)

\* _replace_input_all that looks at the input "x0" only
_replace_input_all_first(g, op, target) == _replace_input(g, op, "x0", target)

_replace_input_all(g, op, target) == AnyInput(g, op, DictKeys(g.inputs[op]), target)

_replace_output_all(g, op, target) == AnyOutput(g, op, DictKeys(g.outputs[op]), target)

\* The reference a call forces to target: the first of names whose Variable is not in target
NoSplice == [site |-> "none"]

FirstOff(g, d, names, target) ==
    LET off == {i \in 1..Len(names) : ChannelModeGet(g, DictGet(d, names[i])) # target}
    IN  IF off = {} THEN 0 ELSE SetMin(off)

SpliceAt(g, site, op, names, target) ==
    LET d == IF site = "input" THEN g.inputs[op] ELSE g.outputs[op]
        i == FirstOff(g, d, names, target)
    IN  IF i = 0 THEN NoSplice
        ELSE [site |-> site, op |-> op, name |-> names[i],
              v |-> DictGet(d, names[i]), target |-> target]

\* No call of elementwise_add is in progress
NoUniforms == [state |-> "none"]

KernelIdle ==
    /\ y_size = 0
    /\ uniforms = NoUniforms
    /\ kpc = "off"

\* No call of _optimize_loop_structure is in progress
LayoutIdle ==
    /\ variables = <<>>
    /\ orders = <<>>
    /\ shape_dicts = <<>>
    /\ var_dict = <<>>
    /\ counter = 0
    /\ lpc = "off"
    /\ result = [state |-> "none"]

NoReturn == [state |-> "none"]

\* optimize, line 73-74
Begin ==
    /\ pc = "idle"
    /\ todo' = listup_operators(graph)
    /\ flag_changed' = FALSE
    /\ pc' = "loop"
    /\ last' = NoSplice
    /\ UNCHANGED <<graph, ret>>
    /\ UNCHANGED lvars
    /\ UNCHANGED kvars

\* optimize, line 75-76
VisitSgemm ==
    /\ pc = "loop" /\ todo # <<>>
    /\ graph.kind[Head(todo)] = Sgemm
    /\ todo' = Tail(todo)
    /\ last' = NoSplice
    /\ UNCHANGED <<graph, pc, flag_changed, ret>>
    /\ UNCHANGED lvars
    /\ UNCHANGED kvars

\* lines 79, 83, 87 with the value of _replace_input... dropped, not or-ed into flag_changed
InputStep_no_flag(k, r, sp) ==
    /\ pc = "loop" /\ todo # <<>>
    /\ graph.kind[Head(todo)] = k
    /\ graph' = r.graph
    /\ flag_changed' = flag_changed
    /\ last' = sp
    /\ pc' = "output"
    /\ UNCHANGED <<todo, ret>>
    /\ UNCHANGED lvars
    /\ UNCHANGED kvars

\* optimize, lines 79, 83, 87: flag_changed |= _replace_input...
InputStep(k, r, sp) ==
    /\ pc = "loop" /\ todo # <<>>
    /\ graph.kind[Head(todo)] = k
    /\ graph' = r.graph
    /\ flag_changed' = (flag_changed \/ r.changed)
    /\ last' = sp
    /\ pc' = "output"
    /\ UNCHANGED <<todo, ret>>
    /\ UNCHANGED lvars
    /\ UNCHANGED kvars

\* flag_changed = ... in place of flag_changed |= ...
OutputStep_assign(k, r, sp) ==
    /\ pc = "output"
    /\ graph.kind[Head(todo)] = k
    /\ graph' = r.graph
    /\ flag_changed' = r.changed
    /\ last' = sp
    /\ pc' = "loop"
    /\ todo' = Tail(todo)
    /\ UNCHANGED ret
    /\ UNCHANGED lvars
    /\ UNCHANGED kvars

OutputStep(k, r, sp) ==
    /\ pc = "output"
    /\ graph.kind[Head(todo)] = k
    /\ graph' = r.graph
    /\ flag_changed' = (flag_changed \/ r.changed)
    /\ last' = sp
    /\ pc' = "loop"
    /\ todo' = Tail(todo)
    /\ UNCHANGED ret
    /\ UNCHANGED lvars
    /\ UNCHANGED kvars

\* optimize, line 79
ConvertRGBAtoR_input ==
    InputStep(ConvertRGBAtoR, _replace_input(graph, Head(todo), "x0", RGBA),
              SpliceAt(graph, "input", Head(todo), <<"x0">>, RGBA))

\* optimize, line 80
ConvertRGBAtoR_output ==
    OutputStep(ConvertRGBAtoR, _replace_output(graph, Head(todo), "y", R),
               SpliceAt(graph, "output", Head(todo), <<"y">>, R))

\* optimize, line 83
ConvertRtoRGBA_input ==
    InputStep(ConvertRtoRGBA, _replace_input(graph, Head(todo), "x0", R),
              SpliceAt(graph, "input", Head(todo), <<"x0">>, R))

\* optimize, line 84
ConvertRtoRGBA_output ==
    OutputStep(ConvertRtoRGBA, _replace_output(graph, Head(todo), "y", RGBA),
               SpliceAt(graph, "output", Head(todo), <<"y">>, RGBA))

\* line 87 with ChannelModeEnum.RGBA
Other_input_RGBA ==
    InputStep(ElementwiseAdd, _replace_input_all(graph, Head(todo), RGBA),
              SpliceAt(graph, "input", Head(todo), DictKeys(graph.inputs[Head(todo)]), RGBA))

\* optimize, line 87
Other_input ==
    InputStep(ElementwiseAdd, _replace_input_all(graph, Head(todo), R),
              SpliceAt(graph, "input", Head(todo), DictKeys(graph.inputs[Head(todo)]), R))

\* optimize, line 88
Other_output ==
    OutputStep(ElementwiseAdd, _replace_output_all(graph, Head(todo), R),
               SpliceAt(graph, "output", Head(todo), DictKeys(graph.outputs[Head(todo)]), R))

\* line 90 with return graph, True
Return_flag_true ==
    /\ pc = "loop" /\ todo = <<>>
    /\ ret' = [state |-> "returned", graph |-> graph, flag |-> TRUE]
    /\ pc' = "idle"
    /\ last' = NoSplice
    /\ UNCHANGED <<graph, todo, flag_changed>>
    /\ UNCHANGED lvars
    /\ UNCHANGED kvars

\* optimize, line 90
Return ==
    /\ pc = "loop" /\ todo = <<>>
    /\ ret' = [state |-> "returned", graph |-> graph, flag |-> flag_changed]
    /\ pc' = "idle"
    /\ last' = NoSplice
    /\ UNCHANGED <<graph, todo, flag_changed>>
    /\ UNCHANGED lvars
    /\ UNCHANGED kvars

\* Initial graphs: Variable 1 is the graph input, operator i produces Variable i + 1 and,
\* from the second operator on, consumes the output of operator i - 1; the inputs of one
\* operator are distinct Variables; every Variable is in either format.
InitInputs(n) ==
    {ins \in [1..n -> SeqsUpTo(1..n, MaxArity)] :
        \A i \in 1..n : /\ Range(ins[i]) \subseteq 1..i
                        /\ \A j, k \in 1..Len(ins[i]) : j # k => ins[i][j] # ins[i][k]
                        /\ i > 1 => i \in Range(ins[i])}

InitKinds(n, ins) ==
    {ks \in [1..n -> OperatorKinds] :
        \A i \in 1..n : ks[i] \in {ConvertRGBAtoR, ConvertRtoRGBA} => Len(ins[i]) = 1}

InitGraph(n, ins, ks, md) ==
    [kind    |-> ks,
     inputs  |-> [i \in 1..n |-> [j \in 1..Len(ins[i]) |-> Entry(InputNames[j], ins[i][j])]],
     outputs |-> [i \in 1..n |-> <<Entry("y", i + 1)>>],
     mode    |-> md]

RewriteInit ==
    /\ \E n \in 1..MaxOps : \E ins \in InitInputs(n) : \E ks \in InitKinds(n, ins) :
            \E md \in [1..(n + 1) -> ChannelModeEnum] : graph = InitGraph(n, ins, ks, md)
    /\ pc = "idle"
    /\ todo = <<>>
    /\ flag_changed = FALSE
    /\ ret = NoReturn
    /\ last = NoSplice
    /\ LayoutIdle
    /\ KernelIdle

RewriteNext ==
    \/ Begin
    \/ VisitSgemm
    \/ ConvertRGBAtoR_input
    \/ ConvertRGBAtoR_output
    \/ ConvertRtoRGBA_input
    \/ ConvertRtoRGBA_output
    \/ Other_input
    \/ Other_output
    \/ Return

SpecRewrite == RewriteInit /\ [][RewriteNext]_vars

\* The driver of the pass: it is given a graph and calls optimize again and again for as
\* long as the flag returned is True.
EmptyGraph == [kind |-> <<>>, inputs |-> <<>>, outputs |-> <<>>, mode |-> <<>>]

DriverInit ==
    /\ graph = EmptyGraph
    /\ pc = "new"
    /\ todo = <<>>
    /\ flag_changed = FALSE
    /\ ret = NoReturn
    /\ last = NoSplice
    /\ LayoutIdle
    /\ KernelIdle

\* the graph the driver is given
Construct ==
    /\ pc = "new"
    /\ \E n \in 1..MaxOps : \E ins \in InitInputs(n) : \E ks \in InitKinds(n, ins) :
            \E md \in [1..(n + 1) -> ChannelModeEnum] : graph' = InitGraph(n, ins, ks, md)
    /\ pc' = "idle"
    /\ UNCHANGED <<todo, flag_changed, ret, last>>
    /\ UNCHANGED lvars
    /\ UNCHANGED kvars

\* the first call of optimize, and the next call after a call that returned True
Invoke ==
    /\ ret.state = "returned" => ret.flag
    /\ Begin

\* the statements of optimize after line 74
OptimizeSteps ==
    \/ VisitSgemm
    \/ ConvertRGBAtoR_input
    \/ ConvertRGBAtoR_output
    \/ ConvertRtoRGBA_input
    \/ ConvertRtoRGBA_output
    \/ Other_input
    \/ Other_output
    \/ Return

DriverNext ==
    \/ Construct
    \/ Invoke
    \/ OptimizeSteps

SpecDriver == DriverInit /\ [][DriverNext]_vars

\* The step from "idle" into the loop of line 74 by a driver that is to call optimize:
\* an Invoke step
InvokeStep ==
    /\ pc = "idle"
    /\ ret.state = "returned" => ret.flag
    /\ pc' = "loop"

\* A statement of optimize after line 74: inside a call one of OptimizeSteps can always
\* be taken, and each of them moves pc or takes the head off todo
OptimizeStep ==
    /\ pc \in {"loop", "output"}
    /\ pc' \in {"loop", "output", "idle"}
    /\ todo' \in {SubSeq(todo, k, Len(todo)) : k \in 1..2}

\* A driver that is to call optimize does call it, and a call that has started runs to
\* its return.
FairDriver ==
    /\ SpecDriver
    /\ WF_pc(InvokeStep)
    /\ WF_<<pc, todo>>(OptimizeStep)

----------------------------------------------------------------------------
(* Properties of InsertChannelModeConversion *)

Conversions == {ConvertRGBAtoR, ConvertRtoRGBA}

AllIn(g, d, m) == \A v \in DictValues(d) : ChannelModeGet(g, v) = m

\* The formats an operator requires of its inputs and outputs
FormatsRight(g, op) ==
    CASE g.kind[op] = Sgemm          -> TRUE
      [] g.kind[op] = ConvertRGBAtoR -> AllIn(g, g.inputs[op], RGBA) /\ AllIn(g, g.outputs[op], R)
      [] g.kind[op] = ConvertRtoRGBA -> AllIn(g, g.inputs[op], R) /\ AllIn(g, g.outputs[op], RGBA)
      [] OTHER                       -> AllIn(g, g.inputs[op], R) /\ AllIn(g, g.outputs[op], R)

Returned(b) == pc = "idle" /\ ret.state = "returned" /\ ret.flag = b

\* The dict as a set of (name, Variable) pairs, whatever the sequence of its keys
DictItems(d) == {<<d[i].name, d[i].var>> : i \in 1..Len(d)}

\* C1: once optimize has returned flag_changed = False, every operator other than Sgemm
\* and the conversions has all inputs and outputs in R, every ConvertRGBAtoR has input
\* RGBA and output R, every ConvertRtoRGBA has input R and output RGBA.
C1_ConvergedFormats ==
    Returned(FALSE) => \A op \in Operators(graph) : FormatsRight(graph, op)

\* optimize returned False on a graph into which earlier invocations spliced conversions
C1_Witness ==
    /\ Returned(FALSE)
    /\ Len(graph.kind) > MaxOps
    /\ \E op \in Operators(graph) : graph.kind[op] = ElementwiseAdd

\* C2: when one invocation of optimize returns, every operator other than Sgemm and the
\* conversions has all its inputs and outputs in R, however many of them were RGBA before.
C2_SingleInvocationForcesAll ==
    (pc = "idle" /\ ret.state = "returned") =>
        \A op \in Operators(graph) :
            graph.kind[op] = ElementwiseAdd =>
                AllIn(graph, graph.inputs[op], R) /\ AllIn(graph, graph.outputs[op], R)

\* C3: after optimize has returned flag_changed = False, the next invocation changes
\* nothing in the graph and returns the same graph with flag_changed = False.
C3_Idempotent ==
    [][(ret.state = "returned" /\ ret.flag = FALSE) =>
            /\ graph' = graph
            /\ (pc = "loop" /\ pc' = "idle") => (ret'.flag = FALSE /\ ret'.graph = ret.graph)]_vars

\* the invocation after a False return has visited every operator and is about to return
C3_Witness ==
    /\ ret.state = "returned" /\ ret.flag = FALSE
    /\ pc = "loop" /\ todo = <<>>
    /\ Len(graph.kind) > MaxOps

\* C4: after an output-side splice on output Variable v of op, the output of op is a fresh
\* Variable of the target format, v is produced by the inserted conversion and by no other
\* operator, and every operator that consumed v still consumes v.
OutputSpliceRight(g, h, s) ==
    LET w == DictGet(h.outputs[s.op], s.name)
        c == Len(g.kind) + 1
    IN  /\ w \notin Variables(g)
        /\ ChannelModeGet(h, w) = s.target
        /\ Producers(h, s.v) = {c}
        /\ Len(h.kind) = c
        /\ h.kind[c] \in Conversions
        /\ DictItems(h.inputs[c]) = {<<"x0", w>>}
        /\ \A o \in Operators(g) : DictItems(h.inputs[o]) = DictItems(g.inputs[o])
        /\ Consumers(g, s.v) \subseteq Consumers(h, s.v)

C4_OutputSplice ==
    [][last'.site = "output" => OutputSpliceRight(graph, graph', last')]_vars

\* an output-side splice has just been done on a Variable that other operators consume
C4_Witness ==
    /\ last.site = "output"
    /\ Consumers(graph, last.v) # {}
    /\ \E c \in Producers(graph, last.v) : graph.kind[c] \in Conversions /\ c = Len(graph.kind)

\* C5: an input-side splice on input Variable v of op changes only that one reference of
\* op (now the fresh Variable the new conversion produces) and adds the conversion as a
\* consumer of v; the producer, the format and the other consumers of v and every other
\* reference of every operator stay as they were.
InputSpliceRight(g, h, s) ==
    LET w == DictGet(h.inputs[s.op], s.name)
        c == Len(g.kind) + 1
    IN  /\ w \notin Variables(g)
        /\ Len(h.kind) = c
        /\ h.kind[c] \in Conversions
        /\ DictItems(h.inputs[c]) = {<<"x0", s.v>>}
        /\ DictItems(h.outputs[c]) = {<<"y", w>>}
        /\ DictItems(h.inputs[s.op]) =
                (DictItems(g.inputs[s.op]) \ {<<s.name, s.v>>}) \cup {<<s.name, w>>}
        /\ \A o \in Operators(g) \ {s.op} : DictItems(h.inputs[o]) = DictItems(g.inputs[o])
        /\ \A o \in Operators(g) : DictItems(h.outputs[o]) = DictItems(g.outputs[o])
        /\ \A o \in Operators(g) : h.kind[o] = g.kind[o]
        /\ \A x \in Variables(g) : ChannelModeGet(h, x) = ChannelModeGet(g, x)
        /\ Producers(h, s.v) = Producers(g, s.v)

C5_InputSpliceFrame ==
    [][last'.site = "input" => InputSpliceRight(graph, graph', last')]_vars

\* an input-side splice has just been done on a Variable that another operator consumes too
C5_Witness ==
    /\ last.site = "input"
    /\ Len(graph.kind) \in Consumers(graph, last.v)
    /\ \E o \in Consumers(graph, last.v) : o # last.op /\ o # Len(graph.kind)

\* C14: a driver that calls optimize again for as long as the flag returned is True gets
\* the flag False after finitely many calls, whatever graph and formats it was given.
C14_DriverReceivesFalse == (pc = "idle") ~> Returned(FALSE)

\* the driver got False after two calls or more that each spliced a ConvertRGBAtoR before
\* an input of the same operator
C14_Witness ==
    /\ Returned(FALSE)
    /\ \E op \in Operators(graph) :
        /\ graph.kind[op] = ElementwiseAdd
        /\ Cardinality({v \in DictValues(graph.inputs[op]) :
                \E c \in Producers(graph, v) : c > MaxOps /\ graph.kind[c] = ConvertRGBAtoR}) >= 2

\* The operators that consume an output of one of ops
After(g, ops) ==
    UNION {Consumers(g, v) : v \in UNION {DictValues(g.outputs[op]) : op \in ops}}

RECURSIVE ReachableFrom(_, _)
ReachableFrom(g, S) ==
    LET T == S \cup After(g, S)
    IN  IF T = S THEN S ELSE ReachableFrom(g, T)

\* No operator consumes, directly or through other operators, what it produces
Acyclic(g) == \A op \in Operators(g) : op \notin ReachableFrom(g, After(g, {op}))

\* Variable 1 is the input of the graph
GraphInputs == {1}

\* The Variables of the graph: those an operator has as input or output. The output a
\* conversion is created with in _replace_output is detached by replace(v) and is none.
Attached(g) ==
    UNION {DictValues(g.inputs[op]) \cup DictValues(g.outputs[op]) : op \in Operators(g)}

\* C15: after every splice and every invocation the graph is acyclic, the graph input has
\* no producer, and every other Variable, the fresh ones too, has exactly one producer and
\* is bound to one output name of it.
C15_AcyclicSingleProducer ==
    pc \in {"idle", "loop", "output"} =>
        /\ Acyclic(graph)
        /\ Attached(graph) \subseteq Variables(graph)
        /\ \A v \in Attached(graph) :
                Cardinality(Producers(graph, v)) = IF v \in GraphInputs THEN 0 ELSE 1
        /\ \A op \in Operators(graph) :
                Cardinality(DictValues(graph.outputs[op])) = Len(graph.outputs[op])

\* optimize has returned a graph in which an output-side splice made a conversion the
\* producer of a Variable of the initial graph and an input-side splice made a conversion
\* produce a fresh Variable from a Variable of the initial graph
C15_Witness ==
    /\ pc = "idle" /\ ret.state = "returned"
    /\ \E c \in Operators(graph) :
        /\ c > MaxOps
        /\ \E v \in DictValues(graph.outputs[c]) : v <= MaxOps + 1
    /\ \E c \in Operators(graph) :
        /\ c > MaxOps
        /\ \E v \in DictValues(graph.inputs[c]) : v <= MaxOps + 1
        /\ \E v \in DictValues(graph.outputs[c]) : v > MaxOps + 1

\* The format optimize forces the inputs and the outputs of an operator to (lines 78-88)
InputTarget(k) == IF k = ConvertRGBAtoR THEN RGBA ELSE R

OutputTarget(k) == IF k = ConvertRtoRGBA THEN RGBA ELSE R

\* h is g with one conversion operator more
Spliced(g, h) ==
    /\ Len(h.kind) = Len(g.kind) + 1
    /\ h.kind[Len(h.kind)] \in Conversions
    /\ \A o \in Operators(g) : h.kind[o] = g.kind[o]

\* Every reference of g that is in the format its operator is forced to, and every
\* reference of an Sgemm, is a reference of h
RightKept(g, h) ==
    \A op \in Operators(g) :
        /\ \A i \in 1..Len(g.inputs[op]) :
            (g.kind[op] = Sgemm
                \/ ChannelModeGet(g, g.inputs[op][i].var) = InputTarget(g.kind[op]))
            => <<g.inputs[op][i].name, g.inputs[op][i].var>> \in DictItems(h.inputs[op])
        /\ \A i \in 1..Len(g.outputs[op]) :
            (g.kind[op] = Sgemm
                \/ ChannelModeGet(g, g.outputs[op][i].var) = OutputTarget(g.kind[op]))
            => <<g.outputs[op][i].name, g.outputs[op][i].var>> \in DictItems(h.outputs[op])

\* C16: an invocation starts with the flag False and the graph it is given; every step of
\* it either leaves the graph as it is or splices one conversion, and the flag is True
\* after the step exactly if it was True before or the step spliced; the flag returned is
\* this flag, so it is True exactly if a step of the invocation spliced, and the graph
\* returned with False is the graph given; no step changes a reference whose format is
\* the target already.
C16_FlagIffSpliced ==
    [][/\ (pc = "idle" /\ pc' = "loop") => (flag_changed' = FALSE /\ graph' = graph)
       /\ (pc \in {"loop", "output"} /\ pc' # "idle") =>
            /\ graph' = graph \/ Spliced(graph, graph')
            /\ flag_changed' = (flag_changed \/ Spliced(graph, graph'))
            /\ RightKept(graph, graph')
       /\ (pc = "loop" /\ pc' = "idle") =>
            /\ graph' = graph
            /\ ret'.graph = graph
            /\ ret'.flag = flag_changed]_vars

\* optimize has returned True after it spliced a conversion before one input of an
\* operator and left alone another input of it that was in R already
C16_Witness ==
    /\ Returned(TRUE)
    /\ \E op \in Operators(graph) :
        /\ graph.kind[op] = ElementwiseAdd
        /\ \E v \in DictValues(graph.inputs[op]) :
                \E c \in Producers(graph, v) : c > MaxOps /\ graph.kind[c] = ConvertRGBAtoR
        /\ \E v \in DictValues(graph.inputs[op]) :
                v <= MaxOps + 1 /\ ChannelModeGet(graph, v) = R

\* The references (operator, side, name) whose Variable is not in the format optimize
\* forces that reference to; an Sgemm has none
WrongReferences(g) ==
    UNION {{<<op, "input", g.inputs[op][i].name>> :
                i \in {k \in 1..Len(g.inputs[op]) :
                    ChannelModeGet(g, g.inputs[op][k].var) # InputTarget(g.kind[op])}} \cup
           {<<op, "output", g.outputs[op][i].name>> :
                i \in {k \in 1..Len(g.outputs[op]) :
                    ChannelModeGet(g, g.outputs[op][k].var) # OutputTarget(g.kind[op])}} :
           op \in {o \in Operators(g) : g.kind[o] # Sgemm}}

\* C19: a step that splices adds a conversion that has its input and its output in the
\* formats it requires; no step changes the format of a Variable; a conversion that has
\* its formats right keeps them and its references in every step, so no step splices on
\* it; and every step that splices leaves exactly one wrong reference less.
C19_SplicesConverge ==
    [][/\ Spliced(graph, graph') => FormatsRight(graph', Len(graph'.kind))
       /\ \A v \in Variables(graph) : ChannelModeGet(graph', v) = ChannelModeGet(graph, v)
       /\ \A c \in Operators(graph) :
            (graph.kind[c] \in Conversions /\ FormatsRight(graph, c)) =>
                /\ FormatsRight(graph', c)
                /\ DictItems(graph'.inputs[c]) = DictItems(graph.inputs[c])
                /\ DictItems(graph'.outputs[c]) = DictItems(graph.outputs[c])
                /\ last'.site # "none" => last'.op # c
       /\ Spliced(graph, graph') =>
            Cardinality(WrongReferences(graph')) = Cardinality(WrongReferences(graph)) - 1]_vars

\* a later invocation has just spliced on an operator one input of which an earlier
\* invocation gave a conversion, and no wrong reference is left
C19_Witness ==
    /\ ret.state = "returned" /\ ret.flag
    /\ last.site = "input"
    /\ Len(ret.graph.kind) > MaxOps
    /\ Len(graph.kind) = Len(ret.graph.kind) + 1
    /\ \E v \in DictValues(ret.graph.inputs[last.op]) :
            \E c \in Producers(ret.graph, v) : c > MaxOps
    /\ WrongReferences(graph) = {}

----------------------------------------------------------------------------
(* kernels/elementwise_add.py: _simplify_orders, _optimize_loop_structure *)

AxisNames == <<"N", "H", "W", "C", "T">>

Axes == {AxisNames[i] : i \in 1..NumAxes}

\* Axis("Scalar")
axis_scalar == "Scalar"

\* Axis(f"X{counter}")
SyntheticNames == <<"X0", "X1", "X2", "X3", "X4", "X5", "X6", "X7">>

SyntheticAxis(c) == SyntheticNames[c + 1]

\* webdnn.util.misc.mul: the product of a list, 1 for the empty list
RECURSIVE mul(_)
mul(s) == IF s = <<>> THEN 1 ELSE Head(s) * mul(Tail(s))

\* s[i:] of a Python list, i counted from 0
SliceFrom(s, i) == IF i >= Len(s) THEN <<>> ELSE SubSeq(s, i + 1, Len(s))

\* Order.axes_dict[a]: the position of an axis in an Order, counted from 1 here
AxisIndex(axes, a) == CHOOSE i \in 1..Len(axes) : axes[i] = a

\* A Variable of the list: its Order and its shape (extents in the Order's sequence)
Variable(o, sh) == [order |-> o, shape |-> sh]

VariableShapeDict(v, a) == v.shape[AxisIndex(v.order, a)]

VariableSize(v) == mul(v.shape)

VariableNdim(v) == Len(v.order)

\* line 52: the axes of v whose size is not 1
new_axes(v) == SelectSeq(v.order, LAMBDA a : VariableShapeDict(v, a) # 1)

\* lines 53-58: the Order and the shape dict a Variable starts the merge loop with
\* lines 53-54 alone, without the Scalar axis of lines 56-58
DropOrder_no_scalar(v) == new_axes(v)

DropOrder(v) ==
    IF Len(new_axes(v)) = 0 /\ VariableSize(v) = 1 THEN <<axis_scalar>> ELSE new_axes(v)

DropShapeDict(v) ==
    IF Len(new_axes(v)) = 0 /\ VariableSize(v) = 1
    THEN [a \in {axis_scalar} |-> 1]
    ELSE [a \in Range(new_axes(v)) |-> VariableShapeDict(v, a)]

\* lines 61-67: the axes in the sequence they are first met, each with the Variables that have it
RECURSIVE AddAxes(_, _, _)
AddAxes(vd, axes, v) ==
    IF axes = <<>> THEN vd
    ELSE LET a == Head(axes)
             vd1 == IF \E i \in 1..Len(vd) : vd[i].axis = a
                    THEN [i \in 1..Len(vd) |->
                            IF vd[i].axis = a THEN [vd[i] EXCEPT !.vars = @ \cup {v}] ELSE vd[i]]
                    ELSE Append(vd, [axis |-> a, vars |-> {v}])
         IN  AddAxes(vd1, Tail(axes), v)

RECURSIVE BuildVarDict(_, _, _)
BuildVarDict(vd, os, v) ==
    IF v > Len(os) THEN vd ELSE BuildVarDict(AddAxes(vd, os[v], v), os, v + 1)

\* line 80 with all(...) in place of any(...): adjacent in one Variable is enough
CanMerge_some(vd, os, i, j) ==
    /\ vd[i].axis # vd[j].axis
    /\ ~ (\/ vd[i].vars # vd[j].vars
          \/ \A v \in vd[i].vars :
                AxisIndex(os[v], vd[i].axis) + 1 # AxisIndex(os[v], vd[j].axis))

\* line 77 and line 80: the pair (axis1, axis2) of two items of var_dict can be merged
CanMerge(vd, os, i, j) ==
    /\ vd[i].axis # vd[j].axis
    /\ ~ (\/ vd[i].vars # vd[j].vars
          \/ \E v \in vd[i].vars :
                AxisIndex(os[v], vd[i].axis) + 1 # AxisIndex(os[v], vd[j].axis))

\* lines 75-82 with the inner loop over the items after axis1 only
FindPair_forward(vd, os) ==
    LET found == {p \in (1..Len(vd)) \X (1..Len(vd)) :
                    p[1] < p[2] /\ CanMerge(vd, os, p[1], p[2])}
    IN  IF found = {} THEN <<0, 0>>
        ELSE CHOOSE p \in found :
                \A q \in found : p[1] < q[1] \/ (p[1] = q[1] /\ p[2] <= q[2])

\* lines 75-82: the first pair the two nested loops find, <<0, 0>> if they find none
FindPair(vd, os) ==
    LET found == {p \in (1..Len(vd)) \X (1..Len(vd)) : CanMerge(vd, os, p[1], p[2])}
    IN  IF found = {} THEN <<0, 0>>
        ELSE CHOOSE p \in found :
                \A q \in found : p[1] < q[1] \/ (p[1] = q[1] /\ p[2] <= q[2])

\* line 91 with + in place of *
MergeShapeDict_sum(sd, axis1, axis2, axis_new) ==
    [a \in (DOMAIN sd \ {axis1, axis2}) \cup {axis_new} |->
        IF a = axis_new THEN sd[axis1] + sd[axis2] ELSE sd[a]]

\* lines 90-93
MergeShapeDict(sd, axis1, axis2, axis_new) ==
    [a \in (DOMAIN sd \ {axis1, axis2}) \cup {axis_new} |->
        IF a = axis_new THEN sd[axis1] * sd[axis2] ELSE sd[a]]

\* line 96 with axis_new put after the axes that are left, not in the place of the pair
MergeOrder_append(axes, axis1, axis2, axis_new) ==
    SelectSeq(axes, LAMBDA a : a # axis1 /\ a # axis2) \o <<axis_new>>

\* lines 95-96
MergeOrder(axes, axis1, axis2, axis_new) ==
    SubSeq(axes, 1, AxisIndex(axes, axis1) - 1) \o <<axis_new>>
        \o SliceFrom(axes, AxisIndex(axes, axis2))

\* lines 98-99 without del var_dict[axis2] of line 100
MergeVarDict_keep_axis2(vd, axis1, axis2, axis_new, vars1) ==
    SelectSeq(Append(vd, [axis |-> axis_new, vars |-> vars1]),
              LAMBDA e : e.axis # axis1)

\* lines 98-100
MergeVarDict(vd, axis1, axis2, axis_new, vars1) ==
    SelectSeq(Append(vd, [axis |-> axis_new, vars |-> vars1]),
              LAMBDA e : e.axis # axis1 /\ e.axis # axis2)

\* for v in vars1: a set is iterated in a sequence that is not fixed
Orderings(S) ==
    {seq \in [1..Cardinality(S) -> S] :
        \A i, j \in 1..Cardinality(S) : i # j => seq[i] # seq[j]}

\* lines 89-96: the Variables of vars1 are updated one after the other
RECURSIVE MergeInVars(_, _, _, _, _, _)
MergeInVars(os, sds, seq, axis1, axis2, axis_new) ==
    IF seq = <<>> THEN [orders |-> os, shape_dicts |-> sds]
    ELSE LET v == Head(seq)
         IN  MergeInVars([os EXCEPT ![v] = MergeOrder(os[v], axis1, axis2, axis_new)],
                         [sds EXCEPT ![v] = MergeShapeDict(sds[v], axis1, axis2, axis_new)],
                         Tail(seq), axis1, axis2, axis_new)

\* The locals of the while loop
LoopState(os, sds, vd, c) == [orders |-> os, shape_dicts |-> sds, var_dict |-> vd, counter |-> c]

\* lines 75-82: all the pairs of items of var_dict that pass the tests of lines 77 and 80
MergeablePairs(st) ==
    {p \in (1..Len(st.var_dict)) \X (1..Len(st.var_dict)) :
        CanMerge(st.var_dict, st.orders, p[1], p[2])}

\* lines 84-100: the locals after the items i and j of var_dict are merged
MergePair(st, i, j) ==
    LET axis1 == st.var_dict[i].axis
        axis2 == st.var_dict[j].axis
        vars1 == st.var_dict[i].vars
        axis_new == SyntheticAxis(st.counter)
    IN  LoopState([v \in 1..Len(st.orders) |->
                        IF v \in vars1
                        THEN MergeOrder(st.orders[v], axis1, axis2, axis_new)
                        ELSE st.orders[v]],
                  [v \in 1..Len(st.orders) |->
                        IF v \in vars1
                        THEN MergeShapeDict(st.shape_dicts[v], axis1, axis2, axis_new)
                        ELSE st.shape_dicts[v]],
                  MergeVarDict(st.var_dict, axis1, axis2, axis_new, vars1),
                  st.counter + 1)

\* _simplify_orders, lines 46-70
DropUnitAxes ==
    /\ lpc = "start"
    /\ orders' = [v \in 1..Len(variables) |-> DropOrder(variables[v])]
    /\ shape_dicts' = [v \in 1..Len(variables) |-> DropShapeDict(variables[v])]
    /\ var_dict' = BuildVarDict(<<>>, orders', 1)
    /\ counter' = 0
    /\ lpc' = "merge"
    /\ UNCHANGED <<variables, result>>
    /\ UNCHANGED rvars
    /\ UNCHANGED kvars

\* the merging turn with a break after the first Variable of vars1 in the loop of line 89
Merge_first_only ==
    /\ lpc = "merge"
    /\ FindPair(var_dict, orders) # <<0, 0>>
    /\ LET p == FindPair(var_dict, orders)
           axis1 == var_dict[p[1]].axis
           axis2 == var_dict[p[2]].axis
           vars1 == var_dict[p[1]].vars
           axis_new == SyntheticAxis(counter)
       IN  /\ counter' = counter + 1
           /\ \E seq \in Orderings(vars1) :
                LET r == MergeInVars(orders, shape_dicts, <<seq[1]>>, axis1, axis2, axis_new)
                IN  /\ shape_dicts' = r.shape_dicts
                    /\ orders' = r.orders
           /\ var_dict' = MergeVarDict(var_dict, axis1, axis2, axis_new, vars1)
    /\ UNCHANGED <<variables, lpc, result>>
    /\ UNCHANGED rvars
    /\ UNCHANGED kvars

\* _simplify_orders, one turn of the while loop that merges a pair, lines 72-106
Merge ==
    /\ lpc = "merge"
    /\ FindPair(var_dict, orders) # <<0, 0>>
    /\ LET p == FindPair(var_dict, orders)
           axis1 == var_dict[p[1]].axis
           axis2 == var_dict[p[2]].axis
           vars1 == var_dict[p[1]].vars
           axis_new == SyntheticAxis(counter)
       IN  /\ counter' = counter + 1
           /\ \E seq \in Orderings(vars1) :
                LET r == MergeInVars(orders, shape_dicts, seq, axis1, axis2, axis_new)
                IN  /\ shape_dicts' = r.shape_dicts
                    /\ orders' = r.orders
           /\ var_dict' = MergeVarDict(var_dict, axis1, axis2, axis_new, vars1)
    /\ UNCHANGED <<variables, lpc, result>>
    /\ UNCHANGED rvars
    /\ UNCHANGED kvars

\* _simplify_orders, the turn of the while loop that finds no pair, and line 108
SimplifyReturn ==
    /\ lpc = "merge"
    /\ FindPair(var_dict, orders) = <<0, 0>>
    /\ lpc' = "simplified"
    /\ UNCHANGED <<variables, orders, shape_dicts, var_dict, counter, result>>
    /\ UNCHANGED rvars
    /\ UNCHANGED kvars

\* line 124
Shapes(os, sds, v) == [i \in 1..Len(os[v]) |-> sds[v][os[v][i]]]

\* line 125 with shapes[v][i:] in place of shapes[v][i + 1:]
Strides_from_i(vs, os, sds, v) ==
    [i \in 1..VariableNdim(vs[v]) |-> mul(SliceFrom(Shapes(os, sds, v), i - 1))]

\* line 125: one stride for each i in range(v.ndim)
Strides(vs, os, sds, v) ==
    [i \in 1..VariableNdim(vs[v]) |-> mul(SliceFrom(Shapes(os, sds, v), i))]

\* AxisKeyDict(keys, values): the two lists side by side
AxisKeyDict(ks, vals) == [keys |-> ks, values |-> vals]

AxisKeyDictHas(d, a) ==
    \E i \in 1..Len(d.keys) : d.keys[i] = a /\ i <= Len(d.values)

AxisKeyDictGet(d, a) == d.values[AxisIndex(d.keys, a)]

\* line 130: sorted(variables, key=lambda v: orders[v].ndim), a stable sort
RECURSIVE SortedFrom(_, _)
SortedFrom(os, done) ==
    LET rest == (1..Len(os)) \ Range(done)
    IN  IF rest = {} THEN done
        ELSE SortedFrom(os, Append(done,
                CHOOSE v \in rest : \A w \in rest :
                    Len(os[v]) < Len(os[w]) \/ (Len(os[v]) = Len(os[w]) /\ v <= w)))

SortedVariables(os) == SortedFrom(os, <<>>)

\* lines 129-131: the global axis sequence
RECURSIVE GlobalAxesFrom(_, _, _)
GlobalAxesFrom(os, vs, axes) ==
    IF vs = <<>> THEN axes
    ELSE GlobalAxesFrom(os, Tail(vs),
            axes \o SelectSeq(os[Head(vs)], LAMBDA a : a \notin Range(axes)))

GlobalAxes(os) == GlobalAxesFrom(os, SortedVariables(os), <<>>)

\* line 133 left out: the simplified Order is returned as it is
ReOrder_keep(os, v) == os[v]

\* line 133
ReOrder(os, v) == SelectSeq(GlobalAxes(os), LAMBDA x : x \in Range(os[v]))

\* _optimize_loop_structure, lines 124-135
OptimizeLoopStructure ==
    /\ lpc = "simplified"
    /\ result' = [state |-> "returned",
                  orders |-> [v \in 1..Len(variables) |-> ReOrder(orders, v)],
                  shape_dicts |-> shape_dicts,
                  stride_dicts |-> [v \in 1..Len(variables) |->
                        AxisKeyDict(orders[v], Strides(variables, orders, shape_dicts, v))]]
    /\ lpc' = "done"
    /\ UNCHANGED <<variables, orders, shape_dicts, var_dict, counter>>
    /\ UNCHANGED rvars
    /\ UNCHANGED kvars

\* The Orders a Variable of the list can have: the axes are distinct
OrdersOver(S) ==
    {<<>>} \cup {o \in SeqsUpTo(S, Cardinality(S)) :
                    \A i, j \in 1..Len(o) : i # j => o[i] # o[j]}

\* Variables that share an axis agree on its extent, or have extent 1 there (broadcast)
AxisExtent(a) == 2 + ((AxisIndex(AxisNames, a) - 1) % (MaxExtent - 1))

VariablesOver(S) ==
    UNION {{Variable(o, sh) : sh \in {t \in [1..Len(o) -> 1..MaxExtent] :
                                        \A i \in 1..Len(o) : t[i] \in {1, AxisExtent(o[i])}}} :
            o \in OrdersOver(S)}

\* Axes are opaque: the first Variable of the list has the axes N, H, ... in that sequence
IsFirstVariable(x) == x.order = SubSeq(AxisNames, 1, Len(x.order))

\* The examples of the docstring of _simplify_orders (lines 28-40), (N,H,W,C) with (H,W),
\* a one-element Variable with a Variable that has a unit axis, two Variables with the
\* same axes in rotated sequence, and (N,H,W,C) of distinct extents with (W,C)
NHWC == Variable(<<"N", "H", "W", "C">>, <<2, 2, 2, 2>>)

ExampleLists ==
    { <<NHWC, NHWC>>,
      <<Variable(<<"C">>, <<2>>), NHWC, NHWC>>,
      <<Variable(<<"C">>, <<2>>), Variable(<<"H", "W">>, <<2, 2>>), NHWC>>,
      <<NHWC, Variable(<<"H", "W">>, <<2, 2>>)>>,
      <<Variable(<<"N">>, <<1>>), Variable(<<"N", "H", "W">>, <<1, 2, 2>>)>>,
      <<Variable(<<"N", "H", "W">>, <<2, 2, 2>>), Variable(<<"W", "N", "H">>, <<2, 2, 2>>)>>,
      <<Variable(<<"N", "H", "W", "C">>, <<2, 3, 4, 5>>), Variable(<<"W", "C">>, <<4, 5>>)>> }

\* _optimize_loop_structure is called with a list of Variables (line 111; line 168)
Call ==
    /\ lpc = "idle"
    /\ \/ \E n \in 1..MaxVars : \E t \in [1..n -> VariablesOver(Axes)] :
                IsFirstVariable(t[1]) /\ variables' = t
       \/ variables' \in ExampleLists
    /\ lpc' = "start"
    /\ UNCHANGED <<orders, shape_dicts, var_dict, counter, result>>
    /\ UNCHANGED rvars
    /\ UNCHANGED kvars

RewriteIdle ==
    /\ graph = [kind |-> <<>>, inputs |-> <<>>, outputs |-> <<>>, mode |-> <<>>]
    /\ pc = "off"
    /\ todo = <<>>
    /\ flag_changed = FALSE
    /\ ret = NoReturn
    /\ last = NoSplice

LayoutInit ==
    /\ variables = <<>>
    /\ orders = <<>>
    /\ shape_dicts = <<>>
    /\ var_dict = <<>>
    /\ counter = 0
    /\ lpc = "idle"
    /\ result = [state |-> "none"]
    /\ RewriteIdle
    /\ KernelIdle

LayoutNext ==
    \/ Call
    \/ DropUnitAxes
    \/ Merge
    \/ SimplifyReturn
    \/ OptimizeLoopStructure

SpecLayout == LayoutInit /\ [][LayoutNext]_vars

\* A turn of the while loop: in the loop either Merge or SimplifyReturn can be taken, and
\* they are the steps that add 1 to the counter or leave the loop
LoopTurn ==
    /\ lpc = "merge"
    /\ lpc' \in {"merge", "simplified"}
    /\ counter' \in {counter, counter + 1}

\* The while loop of _simplify_orders runs on: a turn that can be taken is taken
\* (line 72: the loop body is entered again as long as flag_continue is set).
FairLayout == SpecLayout /\ WF_<<lpc, counter>>(LoopTurn)

----------------------------------------------------------------------------
(* Properties of _simplify_orders and _optimize_loop_structure *)

Vars == 1..Len(variables)

Simplified == lpc \in {"simplified", "done"}

AxesOf(os) == UNION {Range(os[v]) : v \in 1..Len(os)}

\* The Variables whose Order has the axis
Holders(os, a) == {v \in 1..Len(os) : a \in Range(os[v])}

\* The product of the extents of the axes after position i of an Order
RECURSIVE ProductAfter(_, _, _)
ProductAfter(axes, sd, i) ==
    IF i >= Len(axes) THEN 1 ELSE sd[axes[i + 1]] * ProductAfter(axes, sd, i + 1)

\* C6: after _simplify_orders every simplified Order is non-empty and has no axis of
\* extent 1, except that a Variable of one element has exactly the Scalar axis, extent 1.
C6_NoUnitAxis ==
    Simplified =>
        \A v \in Vars :
            /\ Len(orders[v]) >= 1
            /\ DOMAIN shape_dicts[v] = Range(orders[v])
            /\ IF VariableSize(variables[v]) = 1
               THEN orders[v] = <<axis_scalar>> /\ shape_dicts[v][axis_scalar] = 1
               ELSE \A a \in Range(orders[v]) : shape_dicts[v][a] # 1

\* _simplify_orders returned for a one-element Variable and for a Variable that lost a
\* unit axis and had two axes merged
C6_Witness ==
    /\ lpc = "simplified"
    /\ \E v \in Vars : VariableSize(variables[v]) = 1 /\ VariableNdim(variables[v]) >= 1
    /\ \E v \in Vars : /\ \E i \in 1..VariableNdim(variables[v]) : variables[v].shape[i] = 1
                       /\ \E a \in Range(orders[v]) : a \notin Range(variables[v].order)
                       /\ VariableSize(variables[v]) > 1

\* C7: after the unit axes are dropped and after every merge the product of the extents
\* over the simplified Order of a Variable is its original element count.
C7_ProductKept ==
    lpc \in {"merge", "simplified", "done"} =>
        \A v \in Vars : ProductAfter(orders[v], shape_dicts[v], 0) = VariableSize(variables[v])

\* the loop is running and has merged twice in a Variable of three axes or more
C7_Witness ==
    /\ lpc = "merge"
    /\ counter >= 2
    /\ \E v \in Vars : /\ Len(orders[v]) = 1
                       /\ VariableNdim(variables[v]) >= 3
                       /\ VariableSize(variables[v]) > 1

\* C8: two axes are merged only when the same Variables have them and the second follows
\* the first directly in the Order of every one of these Variables.
MergedPairRight(os, os2, c) ==
    LET gone == AxesOf(os) \ AxesOf(os2)
    IN  /\ Cardinality(gone) = 2
        /\ AxesOf(os2) \ AxesOf(os) = {SyntheticAxis(c)}
        /\ \E a, b \in gone :
            /\ a # b
            /\ Holders(os, a) = Holders(os, b)
            /\ \A v \in Holders(os, a) \cup Holders(os, b) :
                /\ AxisIndex(os[v], b) = AxisIndex(os[v], a) + 1
                /\ Len(os2[v]) = Len(os[v]) - 1
                /\ os2[v][AxisIndex(os[v], a)] = SyntheticAxis(c)
            /\ \A v \in 1..Len(os) : v \notin Holders(os, a) => os2[v] = os[v]

C8_MergeSound ==
    [][(lpc = "merge" /\ orders' # orders) => MergedPairRight(orders, orders', counter)]_vars

\* _simplify_orders returned after a merge and left unmerged two axes that follow each
\* other in one Variable and not in another that has both
C8_Witness ==
    /\ lpc = "simplified"
    /\ counter >= 1
    /\ \E v, w \in Vars : \E i \in 1..(Len(orders[v]) - 1) :
            /\ {orders[v][i], orders[v][i + 1]} \subseteq Range(orders[w])
            /\ AxisIndex(orders[w], orders[v][i + 1]) # AxisIndex(orders[w], orders[v][i]) + 1

LoopStructureReturned == result.state = "returned"

C10_GlobalOrder ==
    LoopStructureReturned =>
        /\ \A v \in Vars :
            /\ Range(result.orders[v]) = Range(orders[v])
            /\ Len(result.orders[v]) = Len(orders[v])
            /\ (\A w \in Vars : Len(orders[v]) < Len(orders[w]) \/ (Len(orders[v]) = Len(orders[w]) /\ v <= w))
                    => result.orders[v] = orders[v]
        /\ \A v, w \in Vars :
            \A a, b \in Range(result.orders[v]) \cap Range(result.orders[w]) :
                (AxisIndex(result.orders[v], a) < AxisIndex(result.orders[v], b))
                    <=> (AxisIndex(result.orders[w], a) < AxisIndex(result.orders[w], b))

\* a result for two Variables that have two axes in common in opposite sequence in their
\* simplified Orders
C10_Witness ==
    /\ LoopStructureReturned
    /\ \E v, w \in Vars : \E a, b \in Range(orders[v]) \cap Range(orders[w]) :
            /\ AxisIndex(orders[v], a) < AxisIndex(orders[v], b)
            /\ AxisIndex(orders[w], a) > AxisIndex(orders[w], b)

----------------------------------------------------------------------------
(* The fixpoint of the merges *)

\* Two distinct axes that the same Variables have, b directly after a in each of them
Mergeable(os, a, b) ==
    /\ a # b
    /\ Holders(os, a) = Holders(os, b)
    /\ \A v \in Holders(os, a) : AxisIndex(os[v], b) = AxisIndex(os[v], a) + 1

\* The list is (N,H,W,C) with (H,W), no extent 1
IsNHWCwithHW(vs) ==
    /\ Len(vs) = 2
    /\ vs[1].order = <<"N", "H", "W", "C">>
    /\ vs[2].order = <<"H", "W">>
    /\ \A v \in 1..2 : \A i \in 1..Len(vs[v].shape) : vs[v].shape[i] > 1
    /\ \A a \in {"H", "W"} : VariableShapeDict(vs[1], a) = VariableShapeDict(vs[2], a)

\* C17: when _simplify_orders has returned, no two distinct axes of the simplified Orders
\* have the same Variables and follow each other directly, in the same direction, in the
\* Order of each of them; and (N,H,W,C) with (H,W) come out as (N,X0,C) and (X0), the
\* extent of X0 being extent(H) * extent(W) in both.
C17_NoMergeablePairLeft ==
    Simplified =>
        /\ \A a, b \in AxesOf(orders) : ~ Mergeable(orders, a, b)
        /\ IsNHWCwithHW(variables) =>
            /\ orders = << <<"N", "X0", "C">>, <<"X0">> >>
            /\ \A v \in 1..2 :
                shape_dicts[v]["X0"] = VariableShapeDict(variables[1], "H")
                                            * VariableShapeDict(variables[1], "W")
            /\ shape_dicts[1]["N"] = VariableShapeDict(variables[1], "N")
            /\ shape_dicts[1]["C"] = VariableShapeDict(variables[1], "C")

\* _simplify_orders has returned for (N,H,W,C) with (H,W)
C17_Witness ==
    /\ lpc = "simplified"
    /\ IsNHWCwithHW(variables)
    /\ counter = 1

\* C18: the list of strides computed for a Variable has one stride for each axis of the
\* simplified Order of the Variable, no more and no less.
C18_StridePerAxis ==
    LoopStructureReturned =>
        \A v \in Vars : Len(result.stride_dicts[v].values) = Len(orders[v])

----------------------------------------------------------------------------
(* Termination of the merge loop *)

\* The keys of var_dict
DistinctAxes == {var_dict[i].axis : i \in 1..Len(var_dict)}

\* The distinct axes the merge loop starts with: those left after lines 51-58
InitialAxes == AxesOf([v \in Vars |-> DropOrder(variables[v])])

\* C11: every turn of the while loop that merges (sets flag_continue) leaves var_dict with
\* one axis less, two removed and the synthetic one added; the number of merges never
\* exceeds the initial number of distinct axes minus 1; and the loop, once entered, exits.
C11_MergeLoopTerminates ==
    /\ [][(lpc = "merge" /\ counter' # counter) =>
            /\ Cardinality(DistinctAxes') = Cardinality(DistinctAxes) - 1
            /\ Cardinality(DistinctAxes \ DistinctAxes') = 2
            /\ DistinctAxes' \ DistinctAxes = {SyntheticAxis(counter)}]_vars
    /\ [](lpc \in {"merge", "simplified", "done"} =>
            /\ DistinctAxes = AxesOf(orders)
            /\ counter + Cardinality(DistinctAxes) = Cardinality(InitialAxes)
            /\ counter <= Cardinality(InitialAxes) - 1)
    /\ (lpc = "merge") ~> (lpc = "simplified")

\* the loop has exited after exactly (initial number of distinct axes - 1) merges, three
\* or more
C11_Witness ==
    /\ lpc = "simplified"
    /\ counter >= 3
    /\ counter = Cardinality(InitialAxes) - 1

----------------------------------------------------------------------------
(* Confluence of the merges *)

\* The locals of the loop in the current state
Now == LoopState(orders, shape_dicts, var_dict, counter)

\* Every result the loop can end with when any pair that can be merged is merged first
RECURSIVE MergeFixpoints(_)
MergeFixpoints(st) ==
    IF MergeablePairs(st) = {} THEN {st}
    ELSE UNION {MergeFixpoints(MergePair(st, p[1], p[2])) : p \in MergeablePairs(st)}

\* The result of the loop as the code runs it: the first pair found is merged
RECURSIVE MergeFirst(_)
MergeFirst(st) ==
    LET p == FindPair(st.var_dict, st.orders)
    IN  IF p = <<0, 0>> THEN st ELSE MergeFirst(MergePair(st, p[1], p[2]))

\* C12: in every state of the merge loop, whichever pair that can be merged is merged first
\* and whichever pairs after it, the loop ends with the same number of axes and the same
\* sequence of extents for every Variable as when the first pair found is merged each time.
C12_Confluence ==
    lpc = "merge" =>
        \A st \in MergeFixpoints(Now) : \A v \in Vars :
            /\ Len(st.orders[v]) = Len(MergeFirst(Now).orders[v])
            /\ Shapes(st.orders, st.shape_dicts, v)
                    = Shapes(MergeFirst(Now).orders, MergeFirst(Now).shape_dicts, v)

\* the loop starts with two pairs that can be merged, on axes of distinct extents, and the
\* results of merging one or the other first differ in the names of the synthetic axes
C12_Witness ==
    /\ lpc = "merge" /\ counter = 0
    /\ Cardinality(MergeablePairs(Now)) >= 2
    /\ \E st \in MergeFixpoints(Now) : st.orders # MergeFirst(Now).orders
    /\ \E v \in Vars : \E a, b \in Range(orders[v]) : shape_dicts[v][a] # shape_dicts[v][b]

----------------------------------------------------------------------------
(* Determinism *)

\* _simplify_orders as a function of the list: the locals when the loop has exited
SimplifyOrders(vs) ==
    LET os == [v \in 1..Len(vs) |-> DropOrder(vs[v])]
        sds == [v \in 1..Len(vs) |-> DropShapeDict(vs[v])]
    IN  MergeFirst(LoopState(os, sds, BuildVarDict(<<>>, os, 1), 0))

\* _optimize_loop_structure as a function of the list
LoopStructureOf(vs) ==
    LET st == SimplifyOrders(vs)
    IN  [state |-> "returned",
         orders |-> [v \in 1..Len(vs) |-> ReOrder(st.orders, v)],
         shape_dicts |-> st.shape_dicts,
         stride_dicts |-> [v \in 1..Len(vs) |->
                AxisKeyDict(st.orders[v], Strides(vs, st.orders, st.shape_dicts, v))]]

\* The synthetic axes X0 .. X(c - 1)
SyntheticUpTo(c) == {SyntheticAxis(k) : k \in 0..(c - 1)}

\* C13: the Orders, shapes and strides returned are a function of the list of Variables:
\* a merging turn ends in the same Orders, shapes and var_dict in whichever sequence the
\* set vars1 is iterated, names the new axis X<counter> and adds 1 to the counter, and the
\* value returned is the one value the list determines.
C13_Deterministic ==
    /\ [][(lpc = "merge" /\ counter' # counter) =>
            /\ LoopState(orders', shape_dicts', var_dict', counter')
                    = MergePair(Now, FindPair(var_dict, orders)[1], FindPair(var_dict, orders)[2])
            /\ AxesOf(orders') \ AxesOf(orders) = {SyntheticAxis(counter)}
            /\ counter' = counter + 1]_vars
    /\ [](lpc \in {"merge", "simplified", "done"} =>
            AxesOf(orders) \cap Range(SyntheticNames) \subseteq SyntheticUpTo(counter))
    /\ [](LoopStructureReturned => result = LoopStructureOf(variables))

\* a result after two merges or more, one of them on axes that two Variables or more have
C13_Witness ==
    /\ LoopStructureReturned
    /\ counter >= 2
    /\ \E a \in AxesOf(orders) \cap Range(SyntheticNames) : Cardinality(Holders(orders, a)) >= 2

----------------------------------------------------------------------------
(* kernels/elementwise_add.py: elementwise_add, the uniforms W and H *)

\* The literal 1024 of lines 176-177: the largest width of the texture grid
TextureWidth == 1024

\* line 176
UniformW(size) == IF size < TextureWidth THEN size ELSE TextureWidth

\* line 177 with y.size // 1024
UniformH_floor(size) == size \div TextureWidth

\* line 177
UniformH(size) == (size + TextureWidth - 1) \div TextureWidth

\* elementwise_add is called for an operator whose output has y.size elements (line 166)
Allocate ==
    /\ kpc = "idle"
    /\ \E size \in 1..MaxSize : y_size' = size
    /\ kpc' = "allocated"
    /\ UNCHANGED uniforms
    /\ UNCHANGED rvars
    /\ UNCHANGED lvars

\* lines 173-178
RegisterUniforms ==
    /\ kpc = "allocated"
    /\ uniforms' = [state |-> "registered", W |-> UniformW(y_size), H |-> UniformH(y_size)]
    /\ kpc' = "registered"
    /\ UNCHANGED y_size
    /\ UNCHANGED rvars
    /\ UNCHANGED lvars

KernelInit ==
    /\ y_size = 0
    /\ uniforms = NoUniforms
    /\ kpc = "idle"
    /\ RewriteIdle
    /\ LayoutIdle

KernelNext ==
    \/ Allocate
    \/ RegisterUniforms

SpecKernel == KernelInit /\ [][KernelNext]_vars

Min(a, b) == IF a <= b THEN a ELSE b

\* The least integer that is not less than a / b
Ceil(a, b) == CHOOSE q \in 0..a : q * b >= a /\ (q - 1) * b < a

\* C20: for an output of size >= 1 elements, W = min(size, 1024), H = ceil(size / 1024),
\* W * H >= size and W * (H - 1) < size.
C20_GridCovers ==
    uniforms.state = "registered" =>
        /\ y_size >= 1
        /\ uniforms.W = Min(y_size, TextureWidth)
        /\ uniforms.H = Ceil(y_size, TextureWidth)
        /\ uniforms.W * uniforms.H >= y_size
        /\ uniforms.W * (uniforms.H - 1) < y_size

\* the uniforms are registered for an output of more than two full rows
C20_Witness ==
    /\ uniforms.state = "registered"
    /\ y_size > 2 * TextureWidth
    /\ uniforms.W = TextureWidth
    /\ uniforms.H = 3

====
